---- MODULE Spec2Model ----
(***************************************************************************)
(* Model of coroutine_tasks (include/coroutine_tasks.hpp): coroutine       *)
(* frames with their promise, task values, promise handles, then() and the *)
(* combinators when_all / when_n / when_any.                               *)
(*                                                                         *)
(* One driver (the code that uses the library) creates leaf tasks with     *)
(* make_task, keeps a promise handle to each, resumes them in any order    *)
(* and calls one composition operation on them.  A resumption runs         *)
(* synchronously down the chain of recorded callers, as coroutine resume   *)
(* does; each action is one library call made by the driver.               *)
(***************************************************************************)
EXTENDS Integers, Sequences, FiniteSets, TLC

\* ------------------------------------------------------------------ bounds
MaxTasks == 3      \* leaf tasks the driver creates
MaxChain == 1      \* then() calls the driver chains after the first one
MaxOwned == 1      \* tasks the driver of task values creates
MaxAgents == 2     \* execution agents inside library code at the same time

\* --------------------------------------------------------------- variables
VARIABLES
    frames,        \* coroutine frames, by frame id (1..Len(frames))
    selfs,         \* ids of the frames whose shared self_ cell is owned
    ctx,           \* the combinator context (handle, results, task_count)
    tasks,         \* the driver's container of input task values
    handles,       \* the driver's promise handle to each leaf task
    innerHandles,  \* handles a task-returning continuation stashed away
    ret,           \* the task value returned by the composition call
    op,            \* which composition the driver called, with its n
    chain,         \* number of then() calls chained onto ret
    got,           \* what the awaiting side extracted from ret
    log,           \* trace of completions / invocations, in order
    oob,           \* an out-of-bounds element read has happened
    crashed,       \* an invalid access terminated the program
    uaf,           \* a destroyed frame has been accessed
    agents         \* where each concurrent execution agent is in its code

vars == <<frames, selfs, ctx, tasks, handles, innerHandles, ret, op, chain,
          got, log, oob, crashed, uaf, agents>>

\* ------------------------------------------------------------------ values
Default == 0                         \* T{} of the integer result type
Uninit == -1                         \* promise::result_ before it is written
UnkownV == "Unkown"                  \* the one value of detail::Unkown
Indeterminate == {0, 7}              \* what an uninitialised R ret may hold
LeafValue(i) == 10 * i               \* the value leaf i's callable returns
\* outcomes of reading vec[0] of an empty vector: some pair, or a crash
JunkReads == {[crash |-> FALSE, v |-> <<0, 0>>],
              [crash |-> FALSE, v |-> <<7, 7>>],
              [crash |-> TRUE, v |-> <<0, 0>>]}
NoValue == <<>>                      \* nothing extracted yet
\* the largest size_t, what decrementing 0 gives; stands for 2^64 - 1
SIZE_MAX == 2147483647
SetValue == 5                        \* the value the driver passes to set_value

EmptyTask == [coro_ |-> 0, self_ |-> 0, self_release_ |-> FALSE]
NoFunc == [type |-> "none", idx |-> 0, val |-> 0, ready |-> FALSE]
ConstFunc(v) == [type |-> "const", idx |-> 0, val |-> v, ready |-> FALSE]
ChildFunc(type, idx) == [type |-> type, idx |-> idx, val |-> 0, ready |-> FALSE]
TaskFunc(ready) == [type |-> "ret_task", idx |-> 0, val |-> 0, ready |-> ready]
\* a continuation that returns the task of a combinator over the driver's
\* inputs: [&](int&) { return when_all(first, last); }, when_n(first, last, n)
\* or when_any(first, last)
CombFunc(name, n) ==
    [type |-> "ret_" \o name, idx |-> 0, val |-> n, ready |-> FALSE]
\* an execution agent that has not entered library code
IdleAgent == [pc |-> "idle", c |-> 0, idx |-> 0, a |-> 0, reg |-> 0]
NoCtx == [handle |-> 0, results |-> <<>>, task_count |-> 0]
\* what reading done() from a destroyed frame may give: the stale flag says
\* done, it says suspended, or the access faults
StaleReads == {"done", "suspended", "crash"}

\* the frame of a coroutine together with its promise
NewFrame(kind, rtype, pc, result, t, f, ts) ==
    [kind |-> kind, rtype |-> rtype, pc |-> pc, alive |-> TRUE,
     caller_coro_ |-> 0, result_ |-> result, t |-> t, f |-> f, ts |-> ts,
     inner |-> EmptyTask, awaited |-> 0, nres |-> 0, ncalls |-> 0]

\* the frame make_task(callable) returns: suspended at suspend_always, the
\* callable not yet run
make_task_eager(v) ==
    [NewFrame("make_task", "int", "done", v, EmptyTask, ConstFunc(v), <<>>)
        EXCEPT !.ncalls = 1]

make_task(v) ==
    NewFrame("make_task", "int", "suspended", Uninit, EmptyTask,
             ConstFunc(v), <<>>)

\* the part of the state a library call works on
LibState ==
    [frames |-> frames, selfs |-> selfs, ctx |-> ctx,
     innerHandles |-> innerHandles, log |-> log, oob |-> oob,
     crashed |-> crashed, junk |-> [crash |-> FALSE, v |-> <<0, 0>>],
     uaf |-> uaf, busy |-> FALSE, stale |-> "done", trace |-> TRUE,
     split |-> FALSE, parked |-> IdleAgent,
     stack |-> <<>>, rtask |-> ret,
     call |-> [name |-> "none", in |-> <<>>, ts |-> <<>>, count |-> 0]]

\* RESUME_TASKS_TRACE, when tracing is compiled in
Logged(S, ev, id) ==
    IF S.trace THEN [S EXCEPT !.log = Append(@, <<ev, id>>)] ELSE S

\* ------------------------------------------------------------- task, promise
\* task::set_self_release
set_self_release(task) == [task EXCEPT !.self_release_ = TRUE]

is_ready_never(S, task) == FALSE

\* task::is_ready
is_ready(S, task) ==
    IF task.coro_ # 0 THEN S.frames[task.coro_].pc = "done" ELSE TRUE

\* what std::move leaves behind in the moved-from object
MovedFrom(rtype, v) == IF rtype = "vector" THEN <<>> ELSE v

\* T{} for each result type
DefaultOf(rtype) ==
    CASE rtype = "int" -> Default
      [] rtype = "Unkown" -> UnkownV
      [] rtype = "pair" -> <<0, Default>>
      [] OTHER -> <<>>

await_resume_default(S, task) ==
    [S |-> S,
     v |-> IF task.coro_ # 0 THEN DefaultOf(S.frames[task.coro_].rtype)
           ELSE Default]

\* task::await_resume: std::move(cur_value_ref())
await_resume(S, task) ==
    IF task.coro_ # 0
    THEN LET fr == S.frames[task.coro_] IN
         [S |-> [S EXCEPT !.frames[task.coro_].result_ =
                              MovedFrom(fr.rtype, fr.result_)],
          v |-> fr.result_]
    ELSE [S |-> S, v |-> Default]

await_suspend_lost(S, task, caller) == S

\* task::await_suspend: promise::set_caller
await_suspend(S, task, caller) ==
    [S EXCEPT !.frames[task.coro_].caller_coro_ = caller]

\* promise_handle::from_task: creates the shared self_ cell on first use
from_task(S, task) ==
    [S |-> [S EXCEPT !.selfs = @ \cup {task.coro_}],
     task |-> [task EXCEPT !.self_ = task.coro_],
     handle |-> task.coro_]

\* ------------------------------------------------------ combinator contexts
\* the guard every child continuation takes before it writes
ChildMayWrite(task_count) == task_count # 0

AllWrite_reversed(results, idx, a) ==
    [results EXCEPT ![Len(results) - idx] = a]

\* when_all (range) child: data.results[idx] = std::move(a)
AllWrite(results, idx, a) == [results EXCEPT ![idx + 1] = a]

set_result_position(results, idx, a) ==
    Append(results, <<Len(results), a>>)

\* when_n_range_context::set_result: results.emplace_back(idx, data)
set_result(results, idx, a) == Append(results, <<idx, a>>)

ReachedZero_early(task_count) == task_count <= 1

\* the test that lets the child resume the parent
ReachedZero(task_count) == task_count = 0

ClampN_raw(n, all_task_count) == n

\* n = ((n && n < all_task_count) ? n : all_task_count)
ClampN(n, all_task_count) ==
    IF n # 0 /\ n < all_task_count THEN n ELSE all_task_count

ParentSuspends_always(name, count) == TRUE

ParentSuspends_never(name, count) == FALSE

\* the suspend flag the parent body is started with: all_task_count != 0,
\* n != 0 (n as clamped), and suspend_always in the fixed-arity form
ParentSuspends(name, count) ==
    IF name = "variadic" THEN TRUE ELSE count # 0

\* --------------------------------------------------------------- resumption
(***************************************************************************)
(* A library call runs on the calling thread's stack: S.stack holds the    *)
(* pieces of code still to run, innermost first.  Step runs the innermost  *)
(* piece, which may call further pieces; Run runs the call to its end.     *)
(***************************************************************************)
Item(k, id, v) == [k |-> k, id |-> id, v |-> v]
Push(S, item) == [S EXCEPT !.stack = <<item>> \o @]
Pop(S) == [S EXCEPT !.stack = Tail(@)]

HandleMayResume_any(S, h) == h \in S.selfs

\* promise_handle<void>::resume: sp && !sp->done()
HandleMayResume(S, h) == h \in S.selfs /\ S.frames[h].pc # "done"

\* the weak_ptr locks (the self_ cell outlived the frame) and the handle it
\* holds dangles
Dangling(S, h) == h \in S.selfs /\ ~S.frames[h].alive

\* sp->done() and sp->resume() on a destroyed frame: undefined; the read
\* gives S.stale
StaleResume(S, h) ==
    LET S1 == [S EXCEPT !.uaf = TRUE] IN
    CASE S.stale = "done" -> S1
      [] S.stale = "suspended" /\ S.frames[h].pc # "done" ->
           Push(S1, Item("resume", h, 0))
      [] OTHER -> [S1 EXCEPT !.crashed = TRUE, !.stack = <<>>]

\* promise_handle<void>::resume
HandleResume(S, h) ==
    IF Dangling(S, h) THEN StaleResume(S, h)
    ELSE IF HandleMayResume(S, h) THEN Push(S, Item("resume", h, 0)) ELSE S

\* the value promise_handle<void>::resume returns
ResumeReturns(S, h) ==
    IF Dangling(S, h)
    THEN S.stale = "suspended" /\ S.frames[h].pc # "done"
    ELSE HandleMayResume(S, h)

\* promise_handle<T>::get_promise: non-null when the weak_ptr locks
get_promise(S, h) == h \in S.selfs

\* promise_handle<T>::set_value: prom->set_value(v); resume()
HandleSetValue(S, h, v) ==
    IF get_promise(S, h)
    THEN HandleResume([S EXCEPT !.frames[h].result_ = v,
                                !.uaf = @ \/ ~S.frames[h].alive], h)
    ELSE S

final_suspend_silent(S, id) ==
    Logged([S EXCEPT !.frames[id].pc = "done"], "done", id)

\* promise<void>::final_suspend: the frame is done, then the recorded caller
\* is resumed from inside await_suspend
final_suspend(S, id) ==
    LET S1 == Logged([S EXCEPT !.frames[id].pc = "done"], "done", id)
        caller == S1.frames[id].caller_coro_
    IN  IF caller # 0 THEN Push(S1, Item("resume", caller, 0)) ELSE S1

\* the child continuations of when_all (range) and of the fixed-arity form
\* (set_variadic_result), run for composite c
AllChild(S, c, f, a) ==
    LET R == Push(S, Item("then_return", c, UnkownV)) IN
    IF ChildMayWrite(S.ctx.task_count)
    THEN LET S1 == [R EXCEPT !.ctx.results = AllWrite(@, f.idx, a),
                             !.ctx.task_count = @ - 1]
         IN  IF ReachedZero(S1.ctx.task_count)
             THEN Push(S1, Item("handle_resume", S1.ctx.handle, 0))
             ELSE S1
    ELSE R

\* the child continuation of when_n
NChild(S, c, f, a) ==
    LET R == Push(S, Item("then_return", c, UnkownV)) IN
    IF ChildMayWrite(S.ctx.task_count)
    THEN LET S1 == [R EXCEPT !.ctx.results = set_result(@, f.idx, a),
                             !.ctx.task_count = @ - 1]
         IN  IF ReachedZero(S1.ctx.task_count)
             THEN Push(S1, Item("handle_resume", S1.ctx.handle, 0))
             ELSE S1
    ELSE R

\* the continuation of when_any: return vec[0]; on an empty vector the read
\* is out of bounds and yields S.junk
AnyPick(S, c, a) ==
    IF Len(a) > 0 THEN Push(S, Item("then_return", c, a[1]))
    ELSE IF S.junk.crash
    THEN [S EXCEPT !.oob = TRUE, !.crashed = TRUE, !.stack = <<>>]
    ELSE Push([S EXCEPT !.oob = TRUE], Item("then_return", c, S.junk.v))

\* a task-returning continuation: it builds make_task(g), g returning a + 1,
\* keeps a promise handle to it and, when f.ready, resumes it at once; the
\* composite then awaits the returned task
TaskReturning(S, c, f, a) ==
    LET id == Len(S.frames) + 1
        inner == [coro_ |-> id, self_ |-> id, self_release_ |-> TRUE]
        S1 == [S EXCEPT !.frames = Append(@, make_task(a + 1)),
                        !.selfs = @ \cup {id},
                        !.innerHandles = Append(@, id),
                        !.frames[c].inner = set_self_release(inner),
                        !.frames[c].awaited = id]
        S2 == Push(S1, Item("await_inner", c, 0))
    IN  IF f.ready THEN Push(S2, Item("handle_resume", id, 0)) ELSE S2

\* the continuation f of composite c called with a
Invoke(S, c, f, a) ==
    CASE f.type \in {"all_child", "variadic_child", "n_child"} /\ S.split ->
           \* the statements of the child continuation are taken one by
           \* one by the agent that got here
           [S EXCEPT !.parked = [pc |-> "check", c |-> c, idx |-> f.idx,
                                 a |-> a, reg |-> 0]]
      [] f.type \in {"all_child", "variadic_child"} /\ ~S.split ->
           AllChild(S, c, f, a)
      [] f.type = "n_child" /\ ~S.split -> NChild(S, c, f, a)
      [] f.type = "pick" -> AnyPick(S, c, a)
      [] f.type = "identity" -> Push(S, Item("then_return", c, a))
      [] f.type = "inc" -> Push(S, Item("then_return", c, a + 1))
      [] f.type \in {"ret_when_all", "ret_when_n", "ret_when_any"} ->
           \* f calls the combinator; the composite then awaits the task
           \* the combinator returned
           Push(Push(Push(S, Item("await_inner", c, 0)),
                     Item("bind_inner", c, 0)),
                Item("call_comb", c, f))
      [] OTHER -> TaskReturning(S, c, f, a)

\* the then_impl bodies after `co_await t`: value = await_resume, f(value)
AfterAwaitT(S, c) ==
    LET r == await_resume(S, S.frames[c].t)
        S1 == Logged([r.S EXCEPT !.frames[c].ncalls = @ + 1], "invoke", c)
    IN  Invoke(S1, c, S.frames[c].f, r.v)

\* then_impl (task-returning): co_await f(value).set_self_release()
AwaitInner(S, c) ==
    LET inner == S.frames[c].inner IN
    IF is_ready(S, inner)
    THEN Push(S, Item("after_inner", c, 0))
    ELSE [await_suspend(S, inner, c) EXCEPT !.frames[c].pc = "await_inner"]

\* then_impl (task-returning) after the inner co_await: return the value,
\* then the temporary task dies at the end of the return statement
AfterAwaitInner(S, c) ==
    LET inner == S.frames[c].inner
        r == await_resume(S, inner)
        S1 == [r.S EXCEPT !.frames[c].result_ = r.v,
                          !.frames[c].inner = EmptyTask]
    IN  Push(Push(S1, Item("final", c, 0)), Item("dtor", 0, inner))

\* the parent body after its suspend point: when_all (range) returns
\* std::move(c->results), when_n and the fixed-arity form return a copy
ParentReturn(S, id) ==
    IF S.frames[id].kind = "when_all_parent"
    THEN final_suspend(
             [S EXCEPT !.frames[id].result_ = S.ctx.results,
                       !.ctx.results = MovedFrom("vector", @)], id)
    ELSE final_suspend(
             [S EXCEPT !.frames[id].result_ = S.ctx.results], id)

\* coroutine_handle::resume: run the frame from its suspension point
ResumeFrame(S, id) ==
    LET fr == S.frames[id]
        S0 == [S EXCEPT !.frames[id].nres = @ + 1]
    IN  CASE fr.kind = "make_task" /\ fr.pc = "suspended" ->
               \* return f()
               final_suspend(
                   Logged([S0 EXCEPT !.frames[id].result_ = fr.f.val,
                                     !.frames[id].ncalls = @ + 1],
                          "call", id), id)
          [] fr.kind = "make_task_plain" /\ fr.pc = "suspended" ->
               \* return ret
               final_suspend([S0 EXCEPT !.frames[id].result_ = fr.f.val], id)
          [] fr.kind \in {"when_all_parent", "when_n_parent",
                          "variadic_parent"} /\ fr.pc = "suspended" ->
               ParentReturn(S0, id)
          [] fr.pc = "await_t" -> AfterAwaitT(S0, id)
          [] fr.pc = "await_inner" -> AfterAwaitInner(S0, id)
          [] OTHER -> S0

\* ------------------------------------------------------------------- then
InitResult(rtype) ==
    CASE rtype = "int" -> Uninit
      [] rtype = "Unkown" -> UnkownV
      [] rtype = "pair" -> <<0, 0>>
      [] OTHER -> <<>>

\* task::then(f): marks *this self-releasing, moves it into the composite
\* coroutine, whose body starts at once (initial_suspend never suspends):
\* it goes on if t is ready and suspends on t otherwise
then_impl(S, task, f, kind, rtype) ==
    LET t == set_self_release(task)
        c == Len(S.frames) + 1
        fr == NewFrame(kind, rtype, "start", InitResult(rtype), t, f, <<>>)
        S1 == [S EXCEPT !.frames = Append(@, fr)]
    IN  [S |-> IF is_ready(S1, t)
               THEN Push(S1, Item("after_t", c, 0))
               ELSE [await_suspend(S1, t, c) EXCEPT
                        !.frames[c].pc = "await_t"],
         task |-> [coro_ |-> c, self_ |-> 0, self_release_ |-> FALSE]]

CombTypes == {"ret_when_all", "ret_when_n", "ret_when_any"}
ThenKind(f) ==
    IF f.type \in {"ret_task"} \cup CombTypes THEN "then_task"
    ELSE "then_value"
ThenType(f) ==
    CASE f.type \in {"pick", "ret_when_any"} -> "pair"
      [] f.type \in {"ret_when_all", "ret_when_n"} -> "vector"
      [] OTHER -> "int"

\* rtask = rtask.then(f)
ThenOnReturned(S, f) ==
    LET r == then_impl(S, S.rtask, f, ThenKind(f), ThenType(f))
    IN  [r.S EXCEPT !.rtask = r.task]

\* ---------------------------------------------------- moves and lifetime
MoveOut_kept(task) == task

\* what task(task&&), operator=(task&&) and scoped_task(task&&) leave in
\* their source: coro_ = nullptr, self_ moved out, self_release_ = false
MoveOut(task) == EmptyTask

\* scoped_task(task&&): the frame and self_ of t, self_release_ = true
scoped_task(task) == [task EXCEPT !.self_release_ = TRUE]

\* task::then(): set_self_release(); return std::move(*this)
then_move(task) == set_self_release(task)

\* the body of frame id is still executing: code of it waits on the stack
\* for a call it made to return
Running(S, id) ==
    \E k \in 1..Len(S.stack) :
       /\ S.stack[k].id = id
       /\ S.stack[k].k \in {"after_t", "then_return", "await_inner",
                            "bind_inner", "after_inner", "parent_return",
                            "final"}

DestroyFrame_notify(S, id) ==
    LET fr == S.frames[id]
        owned == <<fr.inner, fr.t>> \o fr.ts
        S1 == Logged([S EXCEPT !.frames[id].alive = FALSE,
                               !.uaf = @ \/ ~fr.alive], "destroyed", id)
        S2 == [S1 EXCEPT !.stack = [k \in 1..Len(owned) |->
                                      Item("dtor", 0, owned[k])] \o @]
    IN  IF fr.pc # "done" /\ fr.caller_coro_ # 0
        THEN Push(S2, Item("resume", fr.caller_coro_, 0))
        ELSE S2

\* coroutine_handle::destroy: the frame goes, and with it the task values
\* that live in it (the awaited temporary, the parameter t, the children)
DestroyFrame(S, id) ==
    LET fr == S.frames[id]
        owned == <<fr.inner, fr.t>> \o fr.ts
        S1 == Logged([S EXCEPT !.frames[id].alive = FALSE,
                               !.uaf = @ \/ ~fr.alive,
                               !.busy = @ \/ Running(S, id)],
                     "destroyed", id)
    IN  [S1 EXCEPT !.stack = [k \in 1..Len(owned) |->
                                Item("dtor", 0, owned[k])] \o @]

\* task::reset: if (coro_) { coro_.destroy(); coro_ = nullptr; }
reset(S, task) ==
    [S |-> IF task.coro_ # 0 THEN Push(S, Item("destroy", task.coro_, 0))
           ELSE S,
     task |-> [task EXCEPT !.coro_ = 0]]

task_dtor_always(S, task) ==
    [reset(S, task).S EXCEPT !.selfs = @ \ {task.self_}]

task_dtor_never(S, task) == [S EXCEPT !.selfs = @ \ {task.self_}]

\* task::~task: if (self_release_) reset(); then the member self_ dies
task_dtor(S, task) ==
    LET S1 == IF task.self_release_ THEN reset(S, task).S ELSE S
    IN  [S1 EXCEPT !.selfs = @ \ {task.self_}]

\* ------------------------------------------------------------ combinators
ChildType(name) ==
    CASE name = "when_all" -> "all_child"
      [] name = "when_n" -> "n_child"
      [] OTHER -> "variadic_child"

\* ctx->task_count as the combinator sets it
InitialCount(name, n, all_task_count) ==
    IF name = "when_n" THEN ClampN(n, all_task_count) ELSE all_task_count

\* ctx->results as the combinator sets it: resize(N), empty, or a tuple
InitialResults(name, all_task_count) ==
    IF name = "when_n" THEN <<>> ELSE [i \in 1..all_task_count |-> Default]

\* one round of the loop over the inputs:
\* tasks.emplace_back((*first).then(child).set_self_release())
AttachChild(S, idx) ==
    LET r == then_impl(Push(S, Item("attach", idx + 1, 0)),
                       S.call.in[idx + 1],
                       ChildFunc(ChildType(S.call.name), idx),
                       "then_value", "Unkown")
    IN  [r.S EXCEPT !.call.ts = Append(@, set_self_release(r.task))]

\* the parent coroutine is created and its body started
StartParent(S) ==
    LET id == Len(S.frames) + 1
        fr == NewFrame(S.call.name \o "_parent", "vector", "suspended", <<>>,
                       EmptyTask, NoFunc, S.call.ts)
        S1 == Push([S EXCEPT !.frames = Append(@, fr)],
                   Item("set_handle", id, 0))
    IN  IF ParentSuspends(S.call.name, S.call.count)
        THEN S1
        ELSE Push(S1, Item("parent_return", id, 0))

\* ctx->handle = ret.get_promise_handle(); return ret
SetHandle(S, id) ==
    LET h == from_task(S, [EmptyTask EXCEPT !.coro_ = id])
    IN  [h.S EXCEPT !.ctx.handle = h.handle, !.rtask = h.task]

\* when_all (range), when_n and detail::when_all_impl: the context is set up
\* and the loop over the inputs begins
Combinator(S, in, name, n) ==
    Push([S EXCEPT !.ctx = [handle |-> 0,
                            results |-> InitialResults(name, Len(in)),
                            task_count |-> InitialCount(name, n, Len(in))],
                   !.call = [name |-> name, in |-> in, ts |-> <<>>,
                             count |-> InitialCount(name, n, Len(in))]],
         Item("attach", 0, 0))

\* when_any: when_n(first, last, 1).then(vec -> vec[0])
when_any(S, in) ==
    Combinator(Push(S, Item("then", 0, ChildFunc("pick", 0))), in,
               "when_n", 1)

\* the combinator call a continuation makes on the driver's inputs
CombinatorCall(S, f) ==
    CASE f.type = "ret_when_all" -> Combinator(S, tasks, "when_all", 0)
      [] f.type = "ret_when_n" -> Combinator(S, tasks, "when_n", f.val)
      [] OTHER -> when_any(S, tasks)

\* co_await f(value).set_self_release(): the task f returned is the
\* temporary composite c awaits
BindInner(S, c) ==
    [S EXCEPT !.frames[c].inner = set_self_release(S.rtask),
              !.frames[c].awaited = S.rtask.coro_,
              !.rtask = [coro_ |-> c, self_ |-> 0, self_release_ |-> FALSE]]

\* return f(value) in a frame that was destroyed while f ran: return_value
\* and final_suspend work on freed memory; the access faults or goes
\* through
DeadReturn(S, id, v) ==
    LET S1 == [S EXCEPT !.uaf = TRUE] IN
    IF S.stale = "crash"
    THEN [S1 EXCEPT !.crashed = TRUE, !.stack = <<>>]
    ELSE final_suspend([S1 EXCEPT !.frames[id].result_ = v], id)

\* the innermost piece of code on the stack runs
Step(S) ==
    LET it == Head(S.stack)
        R == Pop(S)
    IN  CASE it.k = "handle_resume" -> HandleResume(R, it.id)
          [] it.k = "resume" -> ResumeFrame(R, it.id)
          [] it.k = "after_t" -> AfterAwaitT(R, it.id)
          [] it.k = "then_return" ->
               \* return f(value)
               IF R.frames[it.id].alive
               THEN final_suspend([R EXCEPT !.frames[it.id].result_ = it.v],
                                  it.id)
               ELSE DeadReturn(R, it.id, it.v)
          [] it.k = "call_comb" -> CombinatorCall(R, it.v)
          [] it.k = "bind_inner" -> BindInner(R, it.id)
          [] it.k = "await_inner" -> AwaitInner(R, it.id)
          [] it.k = "after_inner" -> AfterAwaitInner(R, it.id)
          [] it.k = "parent_return" -> ParentReturn(R, it.id)
          [] it.k = "final" -> final_suspend(R, it.id)
          [] it.k = "attach" ->
               IF it.id = Len(R.call.in) THEN StartParent(R)
               ELSE AttachChild(R, it.id)
          [] it.k = "set_handle" -> SetHandle(R, it.id)
          [] it.k = "destroy" -> DestroyFrame(R, it.id)
          [] it.k = "dtor" -> task_dtor(R, it.v)
          [] OTHER -> ThenOnReturned(R, it.v)

\* the call runs until its stack is empty
RECURSIVE Run(_)
Run(S) == IF S.stack = <<>> THEN S ELSE Run(Step(S))

\* the input container after the call: every element has been moved from
MovedTasks(in) == [i \in 1..Len(in) |-> EmptyTask]

\* ----------------------------------------------------------------- actions
Install(S) ==
    /\ frames' = S.frames
    /\ selfs' = S.selfs
    /\ ctx' = S.ctx
    /\ innerHandles' = S.innerHandles
    /\ log' = S.log
    /\ oob' = S.oob
    /\ crashed' = S.crashed
    /\ uaf' = S.uaf

Init ==
    /\ frames = <<>>
    /\ selfs = {}
    /\ ctx = NoCtx
    /\ tasks = <<>>
    /\ handles = <<>>
    /\ innerHandles = <<>>
    /\ ret = EmptyTask
    /\ op = [name |-> "none", n |-> 0]
    /\ chain = 0
    /\ got = NoValue
    /\ log = <<>>
    /\ oob = FALSE
    /\ crashed = FALSE
    /\ uaf = FALSE
    /\ agents = [i \in 1..MaxTasks |-> IdleAgent]

Setup == op.name = "none" /\ ~crashed

\* t = make_task(callable); h = t.get_promise_handle()
MakeTask ==
    /\ Setup
    /\ Len(tasks) < MaxTasks
    /\ LET id == Len(frames) + 1
           fr == make_task(LeafValue(Len(tasks) + 1))
           h == from_task([LibState EXCEPT !.frames = Append(@, fr)],
                          [EmptyTask EXCEPT !.coro_ = id,
                                            !.self_release_ = TRUE])
       IN  /\ Install(h.S)
           /\ tasks' = Append(tasks, h.task)
           /\ handles' = Append(handles, h.handle)
    /\ UNCHANGED <<agents, ret, op, chain, got>>

\* t = make_task<int, false>(); h = t.get_promise_handle()
MakeTaskNoSuspend ==
    /\ Setup
    /\ Len(tasks) < MaxTasks
    /\ \E v \in Indeterminate :
         LET id == Len(frames) + 1
             fr == NewFrame("make_task_nosuspend", "int", "suspended", v,
                            EmptyTask, ConstFunc(v), <<>>)
             S1 == Run(Push([LibState EXCEPT !.frames = Append(@, fr)],
                            Item("final", id, 0)))
             h == from_task(S1, [EmptyTask EXCEPT !.coro_ = id,
                                                  !.self_release_ = TRUE])
         IN  /\ Install(h.S)
             /\ tasks' = Append(tasks, h.task)
             /\ handles' = Append(handles, h.handle)
    /\ UNCHANGED <<agents, ret, op, chain, got>>

\* handles[i].resume()
ResumeLeaf ==
    /\ ~crashed
    /\ \E i \in 1..Len(handles) :
         Install(Run(HandleResume(LibState, handles[i])))
    /\ UNCHANGED <<agents, tasks, handles, ret, op, chain, got>>

\* the handle kept by a task-returning continuation: h.resume()
ResumeInner ==
    /\ ~crashed
    /\ \E j \in 1..Len(innerHandles) :
         Install(Run(HandleResume(LibState, innerHandles[j])))
    /\ UNCHANGED <<agents, tasks, handles, ret, op, chain, got>>

Called(S, name, n) ==
    /\ Install(S)
    /\ ret' = S.rtask
    /\ tasks' = MovedTasks(tasks)
    /\ op' = [name |-> name, n |-> n]
    /\ UNCHANGED <<agents, handles, chain, got>>

\* ret = when_all(tasks.begin(), tasks.end())
CallWhenAll ==
    /\ Setup
    /\ Called(Run(Combinator(LibState, tasks, "when_all", 0)), "when_all", 0)

\* ret = when_n(tasks.begin(), tasks.end(), n)
CallWhenN ==
    /\ Setup
    /\ \E n \in 0..(MaxTasks + 1) :
         Called(Run(Combinator(LibState, tasks, "when_n", n)), "when_n", n)

\* ret = when_any(tasks.begin(), tasks.end())
CallWhenAny ==
    /\ Setup
    /\ \E j \in JunkReads :
         Called(Run(when_any([LibState EXCEPT !.junk = j], tasks)),
                "when_any", 1)

\* ret = when_all(t1, ..., tN)
CallWhenAllVariadic ==
    /\ Setup
    /\ Len(tasks) >= 1
    /\ Called(Run(Combinator(LibState, tasks, "variadic", 0)), "variadic", 0)

ThenFuncs ==
    {ChildFunc("identity", 0), ChildFunc("inc", 0), TaskFunc(TRUE),
     TaskFunc(FALSE)}

\* ret = tasks[0].then(f)
CallThen ==
    /\ Setup
    /\ Len(tasks) >= 1
    /\ \E f \in ThenFuncs :
         LET S == Run(ThenOnReturned([LibState EXCEPT !.rtask = tasks[1]], f))
         IN  /\ Install(S)
             /\ ret' = S.rtask
             /\ tasks' = [tasks EXCEPT ![1] = EmptyTask]
             /\ op' = [name |-> "then", n |-> 0]
    /\ UNCHANGED <<agents, handles, chain, got>>

\* ret = ret.then(f)
ThenAgain ==
    /\ ~crashed
    /\ op.name = "then"
    /\ got = NoValue
    /\ chain < MaxChain
    /\ \E f \in ThenFuncs :
         LET S == Run(ThenOnReturned(LibState, f))
         IN  /\ Install(S)
             /\ ret' = S.rtask
    /\ chain' = chain + 1
    /\ UNCHANGED <<agents, tasks, handles, op, got>>

\* the awaiting side: if (ret.await_ready()) got = ret.await_resume()
TakeIfReady ==
    /\ ~crashed
    /\ op.name # "none"
    /\ got = NoValue
    /\ is_ready(LibState, ret)
    /\ LET r == await_resume(LibState, ret)
       IN  /\ Install(r.S)
           /\ got' = <<r.v>>
    /\ UNCHANGED <<agents, tasks, handles, ret, op, chain>>

Next ==
    \/ MakeTask
    \/ MakeTaskNoSuspend
    \/ ResumeLeaf
    \/ ResumeInner
    \/ CallWhenAll
    \/ CallWhenN
    \/ CallWhenAny
    \/ CallWhenAllVariadic
    \/ CallThen
    \/ ThenAgain
    \/ TakeIfReady

Spec == Init /\ [][Next]_vars

\* ------------------------------------------- actions on task values, handles
(***************************************************************************)
(* A second driver works on task values themselves: it creates up to       *)
(* MaxOwned tasks, declares ret by a move, a scoped_task conversion or a   *)
(* then, moves, resets and drops task values and uses the promise handles  *)
(* at any point, also after the frame is gone.                             *)
(***************************************************************************)
\* the driver goes on until the program has crashed or it has extracted a
\* value, which ends its run
Alive == ~crashed /\ got = NoValue
\* this driver runs the library with tracing compiled out
Lib == [LibState EXCEPT !.trace = FALSE]
\* the continuations this driver passes to then
LifeFuncs == {ChildFunc("inc", 0), TaskFunc(FALSE)}
Places == 0..Len(tasks)
Sources == 1..Len(tasks)
Held(p) == IF p = 0 THEN ret ELSE tasks[p]
\* the places the driver may use: ret only once it is declared
InScope(p) == p \in Places /\ (p # 0 \/ op.name # "none")
Store(p, task) ==
    /\ ret' = IF p = 0 THEN task ELSE ret
    /\ tasks' = IF p = 0 THEN tasks ELSE [tasks EXCEPT ![p] = task]
\* a library call that neither runs nor destroys anything
NoLibraryEffect ==
    UNCHANGED <<frames, selfs, ctx, innerHandles, log, oob, crashed, uaf>>

\* tasks.push_back(make_task(callable)); h = tasks.back().get_promise_handle()
Create ==
    /\ Alive
    /\ Len(tasks) < MaxOwned
    /\ LET id == Len(frames) + 1
           fr == make_task(LeafValue(Len(tasks) + 1))
           h == from_task([Lib EXCEPT !.frames = Append(@, fr)],
                          [EmptyTask EXCEPT !.coro_ = id,
                                            !.self_release_ = TRUE])
       IN  /\ Install(h.S)
           /\ tasks' = Append(tasks, h.task)
           /\ handles' = Append(handles, h.handle)
    /\ UNCHANGED <<agents, ret, op, chain, got>>

\* tasks.push_back(make_task<int>()): R ret; co_await suspend_if{true}
CreatePlain ==
    /\ Alive
    /\ Len(tasks) < MaxOwned
    /\ \E v \in Indeterminate :
         LET id == Len(frames) + 1
             fr == NewFrame("make_task_plain", "int", "suspended", Uninit,
                            EmptyTask, ConstFunc(v), <<>>)
             h == from_task([Lib EXCEPT !.frames = Append(@, fr)],
                            [EmptyTask EXCEPT !.coro_ = id,
                                              !.self_release_ = TRUE])
         IN  /\ Install(h.S)
             /\ tasks' = Append(tasks, h.task)
             /\ handles' = Append(handles, h.handle)
    /\ UNCHANGED <<agents, ret, op, chain, got>>

\* task<int> ret(std::move(tasks[p]))
MoveConstruct(p) ==
    /\ Alive
    /\ op.name = "none"
    /\ p \in Sources
    /\ ret' = tasks[p]
    /\ tasks' = [tasks EXCEPT ![p] = MoveOut(@)]
    /\ op' = [name |-> "move", n |-> 0]
    /\ NoLibraryEffect
    /\ UNCHANGED <<agents, handles, chain, got>>

\* place q = std::move(place p): the members of q are overwritten, the
\* self_ cell q held is released; self-assignment does nothing
MoveAssign(p, q) ==
    /\ Alive
    /\ InScope(p)
    /\ InScope(q)
    /\ IF p = q THEN UNCHANGED <<ret, tasks, selfs>>
       ELSE /\ ret' = IF q = 0 THEN Held(p)
                      ELSE IF p = 0 THEN MoveOut(ret) ELSE ret
            /\ tasks' = [i \in 1..Len(tasks) |->
                           IF i = q THEN Held(p)
                           ELSE IF i = p THEN MoveOut(tasks[i])
                           ELSE tasks[i]]
            /\ selfs' = selfs \ {Held(q).self_}
    /\ UNCHANGED <<agents, frames, ctx, handles, innerHandles, op, chain, got,
                   log,
                   oob, crashed, uaf>>

\* scoped_task<int> ret(std::move(tasks[p]))
Scoped(p) ==
    /\ Alive
    /\ op.name = "none"
    /\ p \in Sources
    /\ ret' = scoped_task(tasks[p])
    /\ tasks' = [tasks EXCEPT ![p] = MoveOut(@)]
    /\ op' = [name |-> "scoped", n |-> 0]
    /\ NoLibraryEffect
    /\ UNCHANGED <<agents, handles, chain, got>>

\* auto ret = tasks[p].then(f)
Then(p, f) ==
    /\ Alive
    /\ op.name = "none"
    /\ p \in Sources
    /\ LET S == Run(ThenOnReturned([Lib EXCEPT !.rtask = tasks[p]], f))
       IN  /\ Install(S)
           /\ ret' = S.rtask
    /\ tasks' = [tasks EXCEPT ![p] = MoveOut(@)]
    /\ op' = [name |-> "then", n |-> 0]
    /\ UNCHANGED <<agents, handles, chain, got>>

\* auto ret = tasks[p].then()
ThenMove(p) ==
    /\ Alive
    /\ op.name = "none"
    /\ p \in Sources
    /\ ret' = then_move(tasks[p])
    /\ tasks' = [tasks EXCEPT ![p] = MoveOut(@)]
    /\ op' = [name |-> "then_move", n |-> 0]
    /\ NoLibraryEffect
    /\ UNCHANGED <<agents, handles, chain, got>>

\* place.reset()
Reset(p) ==
    /\ Alive
    /\ InScope(p)
    /\ LET r == reset(Lib, Held(p))
       IN  /\ Install(Run(r.S))
           /\ Store(p, r.task)
    /\ UNCHANGED <<agents, handles, op, chain, got>>

\* the task value in a place goes out of scope: ~task; the place then holds
\* a default-constructed task
Drop(p) ==
    /\ Alive
    /\ InScope(p)
    /\ Install(Run(task_dtor(Lib, Held(p))))
    /\ Store(p, EmptyTask)
    /\ UNCHANGED <<agents, handles, op, chain, got>>

\* if (place.is_ready()) got = place.await_resume()
Take(p) ==
    /\ Alive
    /\ InScope(p)
    /\ is_ready(Lib, Held(p))
    /\ LET r == await_resume(Lib, Held(p))
       IN  /\ Install(r.S)
           /\ got' = <<r.v>>
    /\ UNCHANGED <<agents, tasks, handles, ret, op, chain>>

\* handles[i].resume(), a read of a destroyed frame giving s
Resume(i, s) ==
    /\ Alive
    /\ i \in 1..Len(handles)
    /\ (s = "done" \/ Dangling(LibState, handles[i]))
    /\ Install(Run(HandleResume([Lib EXCEPT !.stale = s], handles[i])))
    /\ UNCHANGED <<agents, tasks, handles, ret, op, chain, got>>

\* handles[i].set_value(SetValue)
SetValueCall(i, s) ==
    /\ Alive
    /\ i \in 1..Len(handles)
    /\ (s = "done" \/ Dangling(LibState, handles[i]))
    /\ Install(Run(HandleSetValue([Lib EXCEPT !.stale = s], handles[i],
                                  SetValue)))
    /\ UNCHANGED <<agents, tasks, handles, ret, op, chain, got>>

NextLife ==
    \/ Create
    \/ CreatePlain
    \/ \E p \in Sources : MoveConstruct(p)
    \/ \E p \in Places, q \in Places : MoveAssign(p, q)
    \/ \E p \in Sources : Scoped(p)
    \/ \E p \in Sources, f \in LifeFuncs : Then(p, f)
    \/ \E p \in Sources : ThenMove(p)
    \/ \E p \in Places : Reset(p)
    \/ \E p \in Places : Drop(p)
    \/ \E p \in Places : Take(p)
    \/ \E i \in 1..Len(handles), s \in StaleReads : Resume(i, s)
    \/ \E i \in 1..Len(handles), s \in StaleReads : SetValueCall(i, s)

SpecLife == Init /\ [][NextLife]_vars

\* ------------------------------------- a continuation returning a combinator
(***************************************************************************)
(* A third driver passes then a continuation that returns the task of a   *)
(* combinator over its inputs, so that the composite awaits the parent    *)
(* task as a temporary and destroys it when the parent has completed.     *)
(***************************************************************************)
CombFuncs ==
    {CombFunc("when_all", 0), CombFunc("when_any", 1)}
    \cup {CombFunc("when_n", n) : n \in 1..MaxTasks}

\* ret = make_task<int, false>().then([&](int&) { return when_all(...); })
CallThenCombinator ==
    /\ Setup
    /\ \E f \in CombFuncs, v \in Indeterminate :
         LET id == Len(frames) + 1
             fr == NewFrame("make_task_nosuspend", "int", "suspended", v,
                            EmptyTask, ConstFunc(v), <<>>)
             S1 == Run(Push([LibState EXCEPT !.frames = Append(@, fr)],
                            Item("final", id, 0)))
             x == [EmptyTask EXCEPT !.coro_ = id, !.self_release_ = TRUE]
         IN  Called(Run(ThenOnReturned([S1 EXCEPT !.rtask = x], f)),
                    "then_" \o f.type, f.val)

\* handles[i].resume(); s is what an access to freed memory does
ResumeNested ==
    /\ ~crashed
    /\ \E i \in 1..Len(handles), s \in {"done", "crash"} :
         Install(Run(HandleResume([LibState EXCEPT !.stale = s], handles[i])))
    /\ UNCHANGED <<agents, tasks, handles, ret, op, chain, got>>

NextNest ==
    \/ MakeTask
    \/ MakeTaskNoSuspend
    \/ CallThenCombinator
    \/ ResumeNested
    \/ TakeIfReady

SpecNest == Init /\ [][NextNest]_vars

\* ------------------------------------------ continuations on several agents
(***************************************************************************)
(* A fourth driver resumes the inputs of one combinator from different    *)
(* execution agents.  Nothing in the child continuation is atomic or      *)
(* locked: task_count is a plain size_t, so each agent takes the check,   *)
(* the write, the read and the write-back of --task_count and the resume  *)
(* as separate steps, interleaved with those of the other agents.         *)
(***************************************************************************)
Agents == 1..Len(handles)
InLibrary == {i \in Agents : agents[i].pc \notin {"idle", "finished"}}
Goto(i, pc) == agents' = [agents EXCEPT ![i].pc = pc]
OnlyAgents ==
    UNCHANGED <<frames, selfs, ctx, tasks, handles, innerHandles, ret, op,
                chain, got, log, oob, crashed, uaf>>
\* --data.task_count on a size_t
Decrement(count) == IF count = 0 THEN SIZE_MAX ELSE count - 1

\* agent i: handles[i].resume(); the input completes and its final_suspend
\* resumes the child composite, which calls the child continuation
AgentStart(i) ==
    /\ ~crashed
    /\ op.name \in {"when_all", "when_n"}
    /\ i \in Agents
    /\ agents[i].pc = "idle"
    /\ Cardinality(InLibrary) < MaxAgents
    /\ LET S == Run(HandleResume([LibState EXCEPT !.split = TRUE],
                                 handles[i]))
       IN  /\ Install(S)
           /\ agents' = [agents EXCEPT ![i] = S.parked]
    /\ UNCHANGED <<tasks, handles, ret, op, chain, got>>

\* if (data.task_count != 0)
AgentCheck(i) ==
    /\ i \in Agents
    /\ agents[i].pc = "check"
    /\ Goto(i, IF ChildMayWrite(ctx.task_count) THEN "write" ELSE "return")
    /\ OnlyAgents

\* data.results[idx] = std::move(a), or data.set_result(idx, a); an index
\* past the end of the vector is an out-of-bounds write
AgentWrite(i) ==
    /\ i \in Agents
    /\ agents[i].pc = "write"
    /\ IF op.name = "when_n"
       THEN /\ ctx' = [ctx EXCEPT !.results =
                                    set_result(@, agents[i].idx, agents[i].a)]
            /\ oob' = oob
       ELSE IF agents[i].idx < Len(ctx.results)
       THEN /\ ctx' = [ctx EXCEPT !.results =
                                    AllWrite(@, agents[i].idx, agents[i].a)]
            /\ oob' = oob
       ELSE /\ ctx' = ctx
            /\ oob' = TRUE
    /\ Goto(i, "dec_read")
    /\ UNCHANGED <<frames, selfs, tasks, handles, innerHandles, ret, op,
                   chain, got, log, crashed, uaf>>

\* --data.task_count, the read
AgentDecRead(i) ==
    /\ i \in Agents
    /\ agents[i].pc = "dec_read"
    /\ agents' = [agents EXCEPT ![i].pc = "dec_write",
                                ![i].reg = ctx.task_count]
    /\ OnlyAgents

\* --data.task_count, the write-back, and the test == 0
AgentDecWrite(i) ==
    /\ i \in Agents
    /\ agents[i].pc = "dec_write"
    /\ ctx' = [ctx EXCEPT !.task_count = Decrement(agents[i].reg)]
    /\ Goto(i, IF ReachedZero(Decrement(agents[i].reg)) THEN "resume"
               ELSE "return")
    /\ UNCHANGED <<frames, selfs, tasks, handles, innerHandles, ret, op,
                   chain, got, log, oob, crashed, uaf>>

\* data.handle.resume()
AgentResume(i) ==
    /\ i \in Agents
    /\ agents[i].pc = "resume"
    /\ Install(Run(HandleResume(LibState, ctx.handle)))
    /\ Goto(i, "return")
    /\ UNCHANGED <<tasks, handles, ret, op, chain, got>>

\* return detail::Unkown{}: the child composite completes
AgentReturn(i) ==
    /\ i \in Agents
    /\ agents[i].pc = "return"
    /\ Install(Run(Push(LibState,
                        Item("then_return", agents[i].c, UnkownV))))
    /\ Goto(i, "finished")
    /\ UNCHANGED <<tasks, handles, ret, op, chain, got>>

NextRace ==
    \/ MakeTask
    \/ CallWhenAll
    \/ CallWhenN
    \/ \E i \in Agents : AgentStart(i)
    \/ \E i \in Agents : AgentCheck(i)
    \/ \E i \in Agents : AgentWrite(i)
    \/ \E i \in Agents : AgentDecRead(i)
    \/ \E i \in Agents : AgentDecWrite(i)
    \/ \E i \in Agents : AgentResume(i)
    \/ \E i \in Agents : AgentReturn(i)

SpecRace == Init /\ [][NextRace]_vars

\* ----------------------------------------- a handle call racing the owner
(***************************************************************************)
(* A fifth driver lets one agent call resume() or set_value() through a   *)
(* promise handle while another agent, the owner, resets or destroys the  *)
(* task value.  The handle call is lock(), then done(), then resume(),    *)
(* with the store of set_value in front; the destructor is reset() and    *)
(* then the release of the member self_.  Neither side takes a lock.      *)
(***************************************************************************)
HandleAgent == 1
OwnerAgent == 2
OwnerBusy == agents[OwnerAgent].pc = "release"

\* handles[i].resume() or handles[i].set_value(v) begins: handle_.lock()
AgentCall(i, kind) ==
    /\ Alive
    /\ i \in 1..Len(handles)
    /\ agents[HandleAgent].pc = "idle"
    /\ agents' =
          [agents EXCEPT ![HandleAgent] =
              [IdleAgent EXCEPT
                 !.c = handles[i],
                 !.reg = IF frames[handles[i]].alive THEN 1 ELSE 0,
                 !.pc = IF ~get_promise(LibState, handles[i]) THEN "finished"
                        ELSE IF kind = "resume" THEN "done_check"
                        ELSE "store"]]
    /\ OnlyAgents

\* set_value: prom->set_value(v)
AgentStore ==
    /\ Alive
    /\ agents[HandleAgent].pc = "store"
    /\ frames' = [frames EXCEPT ![agents[HandleAgent].c].result_ = SetValue]
    /\ uaf' = (uaf \/ ~frames[agents[HandleAgent].c].alive)
    /\ Goto(HandleAgent, "relock")
    /\ UNCHANGED <<selfs, ctx, tasks, handles, innerHandles, ret, op, chain,
                   got, log, oob, crashed>>

\* set_value: resume() begins with its own handle_.lock()
AgentRelock ==
    /\ Alive
    /\ agents[HandleAgent].pc = "relock"
    /\ Goto(HandleAgent,
            IF get_promise(LibState, agents[HandleAgent].c) THEN "done_check"
            ELSE "finished")
    /\ OnlyAgents

\* resume: !sp->done(); on a destroyed frame the read gives s
AgentDoneCheck(s) ==
    LET c == agents[HandleAgent].c IN
    /\ Alive
    /\ agents[HandleAgent].pc = "done_check"
    /\ s = "done" \/ ~frames[c].alive
    /\ uaf' = (uaf \/ ~frames[c].alive)
    /\ IF frames[c].alive
       THEN /\ Goto(HandleAgent,
                    IF frames[c].pc # "done" THEN "run" ELSE "finished")
            /\ crashed' = crashed
       ELSE CASE s = "done" ->
                   Goto(HandleAgent, "finished") /\ crashed' = crashed
              [] s = "suspended" /\ frames[c].pc # "done" ->
                   Goto(HandleAgent, "run") /\ crashed' = crashed
              [] OTHER -> Goto(HandleAgent, "finished") /\ crashed' = TRUE
    /\ UNCHANGED <<frames, selfs, ctx, tasks, handles, innerHandles, ret, op,
                   chain, got, log, oob>>

\* resume: sp->resume(); on a destroyed frame it runs freed memory or faults
AgentRun(s) ==
    LET c == agents[HandleAgent].c IN
    /\ Alive
    /\ agents[HandleAgent].pc = "run"
    /\ s = "suspended" \/ ~frames[c].alive
    /\ Install(Run(IF frames[c].alive THEN Push(Lib, Item("resume", c, 0))
                   ELSE StaleResume([Lib EXCEPT !.stale = s], c)))
    /\ Goto(HandleAgent, "finished")
    /\ UNCHANGED <<tasks, handles, ret, op, chain, got>>

\* ~task on place p begins: if (self_release_) reset()
OwnerDropBegin(p) ==
    /\ Alive
    /\ InScope(p)
    /\ agents[OwnerAgent].pc = "idle"
    /\ Held(p).coro_ # 0
    /\ LET r == IF Held(p).self_release_ THEN reset(Lib, Held(p))
                ELSE [S |-> Lib, task |-> Held(p)]
       IN  /\ Install(Run(r.S))
           /\ Store(p, r.task)
    /\ agents' = [agents EXCEPT ![OwnerAgent].pc = "release",
                                ![OwnerAgent].idx = p]
    /\ UNCHANGED <<handles, op, chain, got>>

\* ~task ends: the member self_ is released
OwnerDropEnd ==
    LET p == agents[OwnerAgent].idx IN
    /\ Alive
    /\ OwnerBusy
    /\ selfs' = selfs \ {Held(p).self_}
    /\ Store(p, EmptyTask)
    /\ Goto(OwnerAgent, "finished")
    /\ UNCHANGED <<frames, ctx, handles, innerHandles, op, chain, got, log,
                   oob, crashed, uaf>>

NextOwner ==
    \/ Create
    \/ CreatePlain
    \/ \E p \in Sources : ~OwnerBusy /\ Scoped(p)
    \/ \E p \in Places : ~OwnerBusy /\ Reset(p)
    \/ \E i \in 1..Len(handles), kind \in {"resume", "set_value"} :
          AgentCall(i, kind)
    \/ AgentStore
    \/ AgentRelock
    \/ \E s \in StaleReads : AgentDoneCheck(s)
    \/ \E s \in {"suspended", "crash"} : AgentRun(s)
    \/ \E p \in Places : OwnerDropBegin(p)
    \/ OwnerDropEnd

SpecOwner == Init /\ [][NextOwner]_vars

\* ------------------------------------------------------------ observations
NumTasks == Len(handles)
FrameIds == 1..Len(frames)
\* the value input task i produces
Produced(i) == frames[handles[i]].f.val
LeafDone(i) == frames[handles[i]].pc = "done"
FrameReady(id) == is_ready(LibState, [EmptyTask EXCEPT !.coro_ = id])
RetReady == is_ready(LibState, ret)
\* the result of ret as the awaiting side sees it
RetValue == IF got # NoValue THEN got[1] ELSE frames[ret.coro_].result_
IsLeafDoneEvent(e) == e[1] = "done" /\ \E i \in 1..NumTasks : handles[i] = e[2]
LeafIndex(id) == CHOOSE i \in 1..NumTasks : handles[i] = id
\* the input positions (1-based) in the order the input tasks completed
CompletionOrder ==
    LET evs == SelectSeq(log, IsLeafDoneEvent)
    IN  [k \in 1..Len(evs) |-> LeafIndex(evs[k][2])]
Pos(e) == CHOOSE k \in 1..Len(log) : log[k] = e
Occurrences(e) == Cardinality({k \in 1..Len(log) : log[k] = e})
IsThenFrame(id) == frames[id].kind \in {"then_value", "then_task"}
\* what a continuation passed to then() by the driver computes
Apply(f, a) == IF f.type = "identity" THEN a ELSE a + 1

\* ------------------------------------------------------------------ claims
\* C1: in when_all (range), when_n and fixed-arity when_all over at least one
\* input, once the remaining count is zero the parent task has been resumed
\* and is ready, whatever the timing of the child completions, inputs that
\* were complete before the call included.
C1_ResumedAtZero ==
    (op.name \in {"when_all", "when_n", "variadic"} /\ NumTasks >= 1
       /\ ctx.task_count = 0)
    => (frames[ret.coro_].pc = "done" /\ frames[ret.coro_].nres = 1)

\* C2: whenever the task returned by when_all (range) over N tasks is ready,
\* its result has length N and slot i holds the value input task i produced,
\* whatever the completion order.
C2_WhenAllPositional ==
    (op.name = "when_all" /\ RetReady)
    => /\ Len(RetValue) = NumTasks
       /\ \A i \in 1..NumTasks : RetValue[i] = Produced(i)

C2_Witness ==
    /\ op.name = "when_all"
    /\ RetReady
    /\ CompletionOrder = <<3, 1, 2>>
    /\ RetValue = <<10, 20, 30>>

\* C3: for when_n(tasks, k) with 0 < k < N the parent is ready exactly from
\* the k-th child completion on, its result then holds exactly the first k
\* (index, value) pairs in completion order and the remaining count is zero.
C3_WhenNThreshold ==
    (op.name = "when_n" /\ 0 < op.n /\ op.n < NumTasks)
    => /\ RetReady <=> Len(CompletionOrder) >= op.n
       /\ RetReady =>
            /\ RetValue = [j \in 1..op.n |->
                             <<CompletionOrder[j] - 1,
                               Produced(CompletionOrder[j])>>]
            /\ ctx.task_count = 0

\* C4: whenever the task returned by when_any over a non-empty sequence is
\* ready, its result is the (index, value) pair of the input task that
\* completed first.
C4_WhenAnyFirst ==
    (op.name = "when_any" /\ NumTasks >= 1 /\ RetReady)
    => /\ Len(CompletionOrder) >= 1
       /\ RetValue = <<CompletionOrder[1] - 1, Produced(CompletionOrder[1])>>

C4_Witness ==
    /\ op.name = "when_any"
    /\ NumTasks = 3
    /\ RetReady
    /\ CompletionOrder[1] = 3
    /\ RetValue = <<2, 30>>

\* C5: when_all (range) and when_n over an empty input return a task that is
\* ready on return, whose frame was never suspended and resumed, and whose
\* result is the empty sequence.
C5_EmptyReady ==
    (op.name \in {"when_all", "when_n"} /\ NumTasks = 0)
    => /\ RetReady
       /\ frames[ret.coro_].nres = 0
       /\ RetValue = <<>>

C5_Witness ==
    /\ op.name = "when_n"
    /\ op.n = 2
    /\ NumTasks = 0
    /\ RetReady
    /\ got = <<(<<>>)>>

\* C6: when_any over an empty input returns a ready task with a default
\* (index, value) result and never reads an element of the empty when_n
\* result sequence.
C6_WhenAnyEmpty ==
    (op.name = "when_any" /\ NumTasks = 0)
    => /\ ~oob
       /\ RetReady
       /\ RetValue = <<0, Default>>

\* C7: whenever the task returned by fixed-arity when_all(t1, ..., tN) is
\* ready its result holds at position i the value ti produced, and it is not
\* ready while some ti is incomplete.
C7_VariadicPositional ==
    op.name = "variadic"
    => /\ RetReady =>
            /\ Len(RetValue) = NumTasks
            /\ \A i \in 1..NumTasks : RetValue[i] = Produced(i)
       /\ (\E i \in 1..NumTasks : ~LeafDone(i)) => ~RetReady

C7_Witness ==
    /\ op.name = "variadic"
    /\ RetReady
    /\ CompletionOrder = <<2, 3, 1>>
    /\ RetValue = <<10, 20, 30>>

\* C8: a make_task(callable) frame is not ready and has not run the callable
\* before its first resumption; after that resumption the callable has run
\* exactly once and the task is ready with the callable's value.  A
\* make_task<T, false>() task is ready at once.
C8_MakeTask ==
    \A id \in FrameIds :
       /\ frames[id].kind = "make_task" =>
            /\ frames[id].nres = 0 =>
                 (~FrameReady(id) /\ frames[id].ncalls = 0)
            /\ frames[id].nres >= 1 =>
                 /\ frames[id].nres = 1
                 /\ frames[id].ncalls = 1
                 /\ Occurrences(<<"call", id>>) = 1
                 /\ FrameReady(id)
                 /\ frames[id].result_ = frames[id].f.val
       /\ frames[id].kind = "make_task_nosuspend" =>
            (FrameReady(id) /\ frames[id].nres = 0)

C8_Witness ==
    /\ \E id \in FrameIds :
         /\ frames[id].kind = "make_task"
         /\ frames[id].nres = 1
         /\ FrameReady(id)
         /\ frames[id].result_ = 20
    /\ \E id \in FrameIds :
         frames[id].kind = "make_task" /\ ~FrameReady(id)
    /\ \E id \in FrameIds : frames[id].kind = "make_task_nosuspend"

\* C9: once ready, the task returned by t.then(f) holds f applied to t's
\* result when f returns a plain value, and the result of the task f returned
\* when f returns a task; in that case it is not ready before that inner task
\* has completed.
C9_ThenResult ==
    \A c \in FrameIds :
       (IsThenFrame(c) /\ frames[c].f.type \in {"identity", "inc", "ret_task"}
          /\ FrameReady(c))
       => IF frames[c].kind = "then_value"
          THEN frames[c].result_
                  = Apply(frames[c].f, frames[frames[c].t.coro_].result_)
          ELSE /\ frames[c].awaited # 0
               /\ frames[frames[c].awaited].pc = "done"
               /\ frames[c].result_ = frames[frames[c].awaited].result_
               /\ frames[c].result_
                     = Apply(frames[c].f, frames[frames[c].t.coro_].result_)

C9_Witness ==
    /\ \E c \in FrameIds :
         /\ frames[c].kind = "then_task"
         /\ ~frames[c].f.ready
         /\ frames[c].nres = 1
         /\ FrameReady(c)
         /\ frames[c].result_ = 11
    /\ \E c \in FrameIds :
         /\ frames[c].kind = "then_value"
         /\ frames[c].f.type = "identity"
         /\ FrameReady(c)
         /\ frames[c].result_ = 11

\* C10: a continuation attached with then is invoked at most once, exactly
\* when its predecessor frame has completed: it has run in every state in
\* which the predecessor is complete, after the completion, and, when the
\* composite had suspended on the predecessor, as the very next event after
\* the completion.
C10_ContinuationOnce ==
    \A c \in FrameIds :
       IsThenFrame(c) =>
          LET p == frames[c].t.coro_ IN
          /\ frames[c].ncalls <= 1
          /\ Occurrences(<<"invoke", c>>) = frames[c].ncalls
          /\ frames[c].ncalls = 1 <=> frames[p].pc = "done"
          /\ frames[c].ncalls = 1 =>
               Pos(<<"done", p>>) < Pos(<<"invoke", c>>)
          /\ (frames[c].ncalls = 1 /\ frames[p].caller_coro_ = c) =>
               Pos(<<"invoke", c>>) = Pos(<<"done", p>>) + 1

C10_Witness ==
    \E c \in FrameIds :
       /\ IsThenFrame(c)
       /\ frames[c].f.type = "inc"
       /\ frames[frames[c].t.coro_].caller_coro_ = c
       /\ frames[c].ncalls = 1
       /\ frames[c].nres = 1

\* C18: the completion threshold when_n(tasks, n) uses over N tasks, that is
\* the remaining count plus the results already recorded, is n when
\* 0 < n < N and is N when n is zero or n >= N; no more results than the
\* threshold are ever recorded.
C18_ClampedThreshold ==
    op.name = "when_n"
    => LET threshold == IF 0 < op.n /\ op.n < NumTasks THEN op.n
                        ELSE NumTasks
       IN  /\ ctx.task_count + Len(ctx.results) = threshold
           /\ ctx.task_count >= 0

C18_Witness ==
    /\ op.name = "when_n"
    /\ NumTasks = 3
    /\ op.n > NumTasks
    /\ ctx.task_count = 0
    /\ Len(ctx.results) = 3

\* the frame of the parent task of the combinator the driver called
ParentFrame == frames[ctx.handle]
CombinatorCalled ==
    op.name \in {"when_all", "when_n", "when_any", "variadic"}

\* C19: in every combinator with at least one input task the parent task is
\* not ready while the remaining count is above zero, and its frame has been
\* resumed at most once, however many children have completed.
C19_ParentOnce ==
    (CombinatorCalled /\ NumTasks >= 1)
    => /\ ctx.task_count > 0 => ParentFrame.pc # "done"
       /\ ParentFrame.nres <= 1

C19_Witness ==
    /\ op.name = "when_n"
    /\ op.n = 1
    /\ NumTasks = 3
    /\ \A i \in 1..NumTasks : LeafDone(i)
    /\ ParentFrame.pc = "done"
    /\ ParentFrame.nres = 1

\* the frames that recorded c as their caller and have completed
CompletedFor(c) ==
    {p \in FrameIds : frames[p].caller_coro_ = c /\ frames[p].pc = "done"}

\* C20: a caller that awaits a task that is not ready is recorded in that
\* task's promise and stays suspended on it until the awaited frame
\* completes; it is resumed exactly once per awaited frame, and that
\* resumption is the very next thing that happens after the completion.
C20_CallerResumedOnce ==
    /\ \A p \in FrameIds :
          LET c == frames[p].caller_coro_ IN
          c # 0 =>
            /\ IsThenFrame(c)
            /\ p \in {frames[c].t.coro_, frames[c].awaited}
            /\ frames[p].pc # "done" =>
                 /\ frames[c].pc = (IF p = frames[c].t.coro_ THEN "await_t"
                                    ELSE "await_inner")
                 /\ frames[c].ncalls = (IF p = frames[c].t.coro_ THEN 0 ELSE 1)
            /\ frames[p].pc = "done" =>
                 /\ frames[c].pc \notin {"start", "await_t"}
                 /\ Pos(<<"done", p>>) < Len(log)
                 /\ log[Pos(<<"done", p>>) + 1]
                       = (IF p = frames[c].t.coro_ THEN <<"invoke", c>>
                          ELSE <<"destroyed", p>>)
    /\ \A c \in FrameIds :
          IsThenFrame(c) => frames[c].nres = Cardinality(CompletedFor(c))

C20_Witness ==
    \E c \in FrameIds :
       /\ frames[c].kind = "then_task"
       /\ frames[c].awaited # 0
       /\ frames[frames[c].t.coro_].caller_coro_ = c
       /\ frames[frames[c].awaited].caller_coro_ = c
       /\ frames[c].nres = 2
       /\ frames[c].pc = "done"

\* ------------------------------------------- claims on ownership and handles
\* the library state after the driver's next call, were it this one
AfterDrop(p) == Run(task_dtor(Lib, Held(p)))
AfterReset(p) == Run(reset(Lib, Held(p)).S)
AfterThen(p, f) == Run(ThenOnReturned([Lib EXCEPT !.rtask = Held(p)], f))
AfterResume(h, s) == Run(HandleResume([Lib EXCEPT !.stale = s], h))
AfterSetValue(h, s) ==
    Run(HandleSetValue([Lib EXCEPT !.stale = s], h, SetValue))
HoldsFrame(p) == InScope(p) /\ Held(p).coro_ # 0
Unheld(id) == \A p \in Places : Held(p).coro_ # id

\* C11: after t.then(f), and after t.then(), t holds no frame and the
\* predecessor frame is held by a self-releasing task value: the parameter
\* of the composite frame for then(f), the returned task for then().  The
\* predecessor frame is alive exactly as long as the composite frame is, and
\* as long as the task then() returned holds it; destroying that owner
\* destroys it.
C11_ThenOwnership ==
    /\ [](/\ \A c \in FrameIds :
               (IsThenFrame(c) /\ frames[c].t.coro_ # 0) =>
                  /\ frames[c].t.self_release_
                  /\ Unheld(frames[c].t.coro_)
                  /\ frames[frames[c].t.coro_].alive <=> frames[c].alive
          /\ \A p \in Places :
               HoldsFrame(p) =>
                  /\ frames[Held(p).coro_].alive
                  /\ Held(p).self_release_ =>
                       ~AfterDrop(p).frames[Held(p).coro_].alive)
    /\ [][/\ \A p \in Sources :
               (op.name = "none" /\ op'.name = "then_move" /\ ThenMove(p)) =>
                  /\ tasks'[p].coro_ = 0
                  /\ ret'.coro_ = tasks[p].coro_
                  /\ ret'.self_release_
          /\ \A p \in Sources, f \in LifeFuncs :
               (op.name = "none" /\ op'.name = "then" /\ Then(p, f)) =>
                  /\ tasks'[p].coro_ = 0
                  /\ frames'[ret'.coro_].t.coro_ = tasks[p].coro_
                  /\ frames'[ret'.coro_].t.self_release_]_vars

C11_Witness ==
    \E c \in FrameIds :
       /\ IsThenFrame(c)
       /\ frames[c].t.coro_ # 0
       /\ frames[c].pc = "await_t"
       /\ ~frames[c].alive
       /\ ~frames[frames[c].t.coro_].alive
       /\ ~uaf

C14_DeadHandleSafe ==
    /\ ~uaf
    /\ \A i \in 1..Len(handles) :
          ~frames[handles[i]].alive =>
             /\ ~get_promise(Lib, handles[i])
             /\ \A s \in StaleReads :
                   /\ ~ResumeReturns([Lib EXCEPT !.stale = s], handles[i])
                   /\ ~AfterResume(handles[i], s).uaf
                   /\ ~AfterSetValue(handles[i], s).uaf

\* C15: set_value(v) through a promise handle on a live, suspended frame
\* stores v, resumes the frame once, and the result the task then holds for
\* the awaiting side is v.
C15_SetValueResult ==
    \A i \in 1..Len(handles) :
       LET h == handles[i] IN
       (h \in selfs /\ frames[h].alive /\ frames[h].pc = "suspended") =>
          LET R == AfterSetValue(h, "done") IN
          /\ R.frames[h].nres = frames[h].nres + 1
          /\ R.frames[h].result_ = SetValue
          /\ await_resume(R, [EmptyTask EXCEPT !.coro_ = h]).v = SetValue

\* C16: resume() through a promise handle on a frame that has completed
\* returns false and changes no state, so further resume() calls after the
\* one that ran the frame to completion leave the state as that call did.
C16_ResumeCompleted ==
    \A i \in 1..Len(handles) :
       LET h == handles[i] IN
       (frames[h].alive /\ frames[h].pc = "done") =>
          \A s \in StaleReads :
             /\ ~ResumeReturns([Lib EXCEPT !.stale = s], h)
             /\ AfterResume(h, s) = [Lib EXCEPT !.stale = s]

C16_Witness ==
    \E i \in 1..Len(handles) :
       /\ handles[i] \in selfs
       /\ frames[handles[i]].alive
       /\ frames[handles[i]].pc = "done"
       /\ frames[handles[i]].nres = 1
       /\ ~uaf

\* C17: the source of a move construction, a move assignment, a then or a
\* scoped_task conversion holds no frame afterwards; a task that holds no
\* frame reports is_ready() true and yields the default value, and reset,
\* destruction and then on it leave every existing frame as it was.
C17_MovedFrom ==
    /\ [](\A p \in Places :
             (InScope(p) /\ Held(p).coro_ = 0) =>
                /\ is_ready(Lib, Held(p))
                /\ await_resume(Lib, Held(p)).v = Default
                /\ await_resume(Lib, Held(p)).S.frames = frames
                /\ AfterReset(p).frames = frames
                /\ AfterDrop(p).frames = frames
                /\ \A f \in LifeFuncs :
                      SubSeq(AfterThen(p, f).frames, 1, Len(frames)) = frames)
    /\ [][/\ \A p \in Sources :
               (op.name = "none" /\ op'.name # "none"
                  /\ (MoveConstruct(p) \/ Scoped(p) \/ ThenMove(p)
                        \/ \E f \in LifeFuncs : Then(p, f))) =>
                  tasks'[p].coro_ = 0
          /\ \A p \in Places, q \in Places :
               (p # q /\ frames' = frames /\ MoveAssign(p, q)) =>
                  IF p = 0 THEN ret'.coro_ = 0 ELSE tasks'[p].coro_ = 0]_vars

C17_Witness ==
    /\ op.name = "move"
    /\ tasks[1] = EmptyTask
    /\ got = <<Default>>
    /\ ret.coro_ # 0
    /\ frames[ret.coro_].alive
    /\ frames[ret.coro_].pc = "suspended"

\* ------------------------------------------------ claims on timing and races
\* the composite frame of the then call made in this step is past f: f has
\* run, the frame was never suspended, and it is complete unless f returned
\* a task that is still incomplete
ThenRanInline ==
    LET c == ret'.coro_ IN
    /\ frames'[c].ncalls = 1
    /\ frames'[c].nres = 0
    /\ Len(log') > Len(log)
    /\ log'[Len(log) + 1] = <<"invoke", c>>
    /\ (frames'[c].kind = "then_value" \/ frames'[c].f.ready) =>
          frames'[c].pc = "done"

\* C24: when then(f) is called on a task that is already complete, f is
\* invoked synchronously inside the then call and the composite task is
\* ready when then returns, provided f does not return a task that is still
\* incomplete.
C24_ThenOnComplete ==
    [][/\ (op.name = "none" /\ op'.name = "then" /\ Len(tasks) >= 1
            /\ frames[tasks[1].coro_].pc = "done") => ThenRanInline
       /\ (op.name = "then" /\ chain' = chain + 1
            /\ frames[ret.coro_].pc = "done") => ThenRanInline]_vars

C24_Witness ==
    /\ op.name = "then"
    /\ chain = 1
    /\ frames[ret.coro_].kind = "then_task"
    /\ frames[ret.coro_].f.ready
    /\ frames[ret.coro_].nres = 0
    /\ frames[ret.coro_].pc = "done"
    /\ frames[frames[ret.coro_].t.coro_].nres = 0
    /\ frames[frames[ret.coro_].t.coro_].pc = "done"

\* C26: once a frame has completed, a set_value through a promise handle to
\* it leaves the stored result unchanged; only the awaiting side's value
\* extraction changes it.
C26_CompletedResultKept ==
    \A i \in 1..Len(handles) :
       LET h == handles[i] IN
       (h \in selfs /\ frames[h].alive /\ frames[h].pc = "done") =>
          AfterSetValue(h, "done").frames[h].result_ = frames[h].result_

\* the task values that hold frame id: the driver's task objects and the
\* task parameters and temporaries of the live frames
Owners(id) ==
    {<<"place", p, 0>> : p \in {x \in Places : Held(x).coro_ = id}}
    \cup {<<"t", g, 0>> :
            g \in {x \in FrameIds : frames[x].alive /\ frames[x].t.coro_ = id}}
    \cup {<<"inner", g, 0>> :
            g \in {x \in FrameIds :
                     frames[x].alive /\ frames[x].inner.coro_ = id}}
    \cup UNION {{<<"ts", g, k>> :
                   k \in {x \in 1..Len(frames[g].ts) :
                            frames[g].ts[x].coro_ = id}} :
                g \in {x \in FrameIds : frames[x].alive}}
\* reset() or ~task on place p destroys a frame that is already destroyed
DestroysTwice(p) ==
    \/ Run(reset([Lib EXCEPT !.uaf = FALSE], Held(p)).S).uaf
    \/ Run(task_dtor([Lib EXCEPT !.uaf = FALSE], Held(p))).uaf
\* place q receives in this step a frame that existed before the step
Receives(q) ==
    /\ q \in Places
    /\ Len(tasks') = Len(tasks)
    /\ Len(frames') = Len(frames)
    /\ (IF q = 0 THEN ret' ELSE tasks'[q]).coro_ # 0
    /\ (IF q = 0 THEN ret' ELSE tasks'[q]).coro_ # Held(q).coro_
\* place q has after this step what place p held before it, and p is empty
MovedInto(p, q) ==
    LET dst == IF q = 0 THEN ret' ELSE tasks'[q]
        src == IF p = 0 THEN ret' ELSE tasks'[p]
    IN  /\ p # q
        /\ dst.coro_ = Held(p).coro_
        /\ dst.self_ = Held(p).self_
        /\ dst.self_release_ =
              (Held(p).self_release_ \/ op'.name \in {"scoped", "then_move"})
        /\ src.coro_ = 0
        /\ ~src.self_release_

\* C27: after any sequence of moves, then, scoped_task conversions, resets
\* and task destructions every live frame is held by at most one task value,
\* no reset or destruction destroys a frame twice, and a move leaves the
\* destination with exactly the source's frame and self-release mode
\* (scoped_task and then() force the mode on) while the source holds no
\* frame and is not self-releasing.
C27_SingleOwner ==
    /\ [](/\ \A id \in FrameIds :
               frames[id].alive => Cardinality(Owners(id)) <= 1
          /\ \A p \in Places : ~DestroysTwice(p))
    /\ [][\A q \in Places :
             Receives(q) => \E p \in Places : MovedInto(p, q)]_vars

C27_Witness ==
    /\ op.name = "move"
    /\ Len(tasks) = 1
    /\ tasks[1].coro_ # 0
    /\ ret.coro_ = 0
    /\ ~ret.self_release_
    /\ frames[tasks[1].coro_].alive
    /\ tasks[1].self_release_
    /\ Cardinality(Owners(tasks[1].coro_)) = 1

\* frame id did not complete, has a recorded caller, and is destroyed after
\* this step
Abandoned(id) ==
    /\ frames[id].pc # "done"
    /\ frames[id].caller_coro_ # 0
    /\ ~frames'[id].alive

\* C21: when a frame that has not completed and has a recorded caller is
\* destroyed (by reset() or by the destruction of its self-releasing owner),
\* neither in the destroying step nor in any later step is the recorded
\* caller resumed or given a result, the frame itself is not run, and its
\* promise handle has expired, so nothing reaches the producer either.
C21_AbandonedCaller ==
    [][\A id \in FrameIds :
         Abandoned(id) =>
            LET c == frames[id].caller_coro_ IN
            /\ frames'[c].nres = frames[c].nres
            /\ frames'[c].ncalls = frames[c].ncalls
            /\ frames'[c].pc = frames[c].pc
            /\ frames'[c].result_ = frames[c].result_
            /\ frames'[id].nres = frames[id].nres
            /\ frames'[id].pc = frames[id].pc
            /\ id \notin selfs']_vars

C21_Witness ==
    \E id \in FrameIds :
       /\ ~frames[id].alive
       /\ frames[id].pc = "suspended"
       /\ frames[id].caller_coro_ # 0
       /\ frames[frames[id].caller_coro_].pc = "await_t"
       /\ ~frames[frames[id].caller_coro_].alive
       /\ id \notin selfs
       /\ ~uaf

\* C25: no frame is destroyed while its body is still executing on the
\* resumption stack: when a child continuation resumes the parent and the
\* resumed chain destroys the parent frame, the child frame whose
\* continuation is executing is not destroyed before it has returned.
C25_NoRunningFrameDestroyed ==
    \A i \in 1..Len(handles) :
       ~Run(HandleResume(LibState, handles[i])).busy

\* agent i stores into the result container in this step
ChildWrites(i) ==
    /\ i \in Agents
    /\ agents[i].pc = "write"
    /\ agents'[i].pc = "dec_read"
\* the remaining count is one it can legitimately have before reaching zero
CountOpen == ctx.task_count \in 1..Len(handles)
AllFinished ==
    /\ Len(handles) > 0
    /\ \A i \in Agents : agents[i].pc = "finished"

\* C22: when the child continuations of one combinator run on different
\* execution agents and their steps interleave, no child writes into the
\* result container after the remaining count has reached zero, the count
\* never goes below zero, and the parent is resumed exactly once.
C22_LinearizedCount ==
    /\ [](op.name \in {"when_all", "when_n"} =>
            /\ ctx.task_count <= Len(handles)
            /\ ~oob
            /\ ParentFrame.nres <= 1
            /\ AllFinished => ParentFrame.nres = 1)
    /\ [][\A i \in Agents : ChildWrites(i) => CountOpen]_vars

\* the handle agent, whose call began while the frame was alive, reads
\* done(), stores a value or resumes in this step
HandleTouches ==
    /\ agents[HandleAgent].pc \in {"done_check", "store", "run"}
    /\ agents[HandleAgent].reg = 1
    /\ agents'[HandleAgent].pc # agents[HandleAgent].pc

\* C23: when the owner destroys a frame on one agent while another agent
\* calls resume() or set_value() through a promise handle to it, the handle
\* call completes before the destruction or is a no-op: a call that began
\* on the live frame never reads, writes or resumes the frame after it has
\* been destroyed.
C23_HandleRaceSafe ==
    [][HandleTouches => frames[agents[HandleAgent].c].alive]_vars

====
